---------------------------- MODULE Spec2Model ----------------------------
(***************************************************************************)
(* TravelAgent_FetchAI: the hotel search backend (hotels_tool/             *)
(* hotel_backend.py) and the Google Places client (google_places_tool/     *)
(* google_places_client.py).                                               *)
(*                                                                         *)
(* Representation.                                                         *)
(*   - A Python str is a sequence of one-character strings.                *)
(*   - A JSON value is a record [t, n, s, kids]: t is its type ("null",    *)
(*     "num", "str", "arr", "obj"), n the value of an integer number, s    *)
(*     the characters of a string, kids the members of an object (in       *)
(*     insertion order, as Python's dict keeps them) or the elements of    *)
(*     an array, each [k |-> key, v |-> value].                            *)
(*   - A Python float is an integer count of 1/Scale units; Optional[x]    *)
(*     is a record [some, val].                                            *)
(***************************************************************************)
EXTENDS Integers, Sequences, FiniteSets, TLC

VARIABLES
    env,        \* BRIGHT_API_KEY, BRIGHT_SERP_ZONE as read at import
    urlOrder,   \* this process's iteration order of the set URL_KEYS
    args,       \* the parsed command line
    pc,         \* position of the hotel CLI run
    posts,      \* gateway POSTs issued so far
    status,     \* the gateway response's status code, 0 before there is one
    failure,    \* the exception raised inside search_hotels_google's try
    data,       \* res.json()
    found,      \* walk's candidates
    rows,       \* _extract_hotels_from_serp_json's return value
    result,     \* search_hotels_google's return value
    exc,        \* the exception that left search_hotels_google
    stdout,     \* what the CLI printed
    nArgs,      \* _nights: (checkin, checkout)
    nRet,       \* _nights: outcome
    place,      \* normalize_place_summary: the raw place
    pRet        \* normalize_place_summary: outcome

vars == <<env, urlOrder, args, pc, posts, status, failure, data, found, rows, result,
          exc, stdout, nArgs, nRet, place, pRet>>

hotelVars == <<env, urlOrder, args, pc, posts, status, failure, data, found, rows,
               result, exc, stdout>>

\* ------------------------------------------------------------ bounds
\* Result limits 0..MaxLimit are requested.
MaxLimit == 2
\* Arrays of up to MaxItems hotel objects are enumerated.
MaxItems == 3
\* Dates are drawn from the years FirstYear..FirstYear+YearSpan.
FirstYear == 2024
YearSpan == 1

\* ------------------------------------------------------------ Python values
\* round(total, 2)
Decimals == 2

RECURSIVE Pow10(_)
Pow10(k) == IF k = 0 THEN 1 ELSE 10 * Pow10(k - 1)

\* One float unit is 1/Scale: one decimal more than round() keeps.
Scale == Pow10(Decimals + 1)

None == [some |-> FALSE, val |-> 0]
Some(x) == [some |-> TRUE, val |-> x]

DigitChars == {"0", "1", "2", "3", "4", "5", "6", "7", "8", "9"}

DigitVal(c) ==
    CASE c = "0" -> 0 [] c = "1" -> 1 [] c = "2" -> 2 [] c = "3" -> 3
      [] c = "4" -> 4 [] c = "5" -> 5 [] c = "6" -> 6 [] c = "7" -> 7
      [] c = "8" -> 8 [] c = "9" -> 9

DigitChar(d) == <<"0", "1", "2", "3", "4", "5", "6", "7", "8", "9">>[d + 1]

AllDigits(s) == \A i \in 1..Len(s) : s[i] \in DigitChars

RECURSIVE DigitsVal(_)
\* int() of a run of decimal digits
DigitsVal(s) ==
    IF Len(s) = 0 THEN 0
    ELSE 10 * DigitsVal(SubSeq(s, 1, Len(s) - 1)) + DigitVal(s[Len(s)])

RECURSIVE NatStr(_)
NatStr(n) == IF n < 10 THEN <<DigitChar(n)>>
             ELSE NatStr(n \div 10) \o <<DigitChar(n % 10)>>

\* str(int)
IntStr(n) == IF n < 0 THEN <<"-">> \o NatStr(-n) ELSE NatStr(n)

\* Index of the first c in s, 0 when there is none.
IndexOf(s, c) ==
    IF \E i \in 1..Len(s) : s[i] = c
    THEN CHOOSE i \in 1..Len(s) : s[i] = c /\ \A j \in 1..(i - 1) : s[j] # c
    ELSE 0

StartsWith(s, p) == Len(s) >= Len(p) /\ SubSeq(s, 1, Len(p)) = p

\* ------------------------------------------------------------ JSON values
JNull == [t |-> "null", n |-> 0, s |-> <<>>, kids |-> <<>>]
JNum(i) == [t |-> "num", n |-> i, s |-> <<>>, kids |-> <<>>]
JStr(cs) == [t |-> "str", n |-> 0, s |-> cs, kids |-> <<>>]
JArr(es) == [t |-> "arr", n |-> 0, s |-> <<>>,
             kids |-> [i \in 1..Len(es) |-> [k |-> "", v |-> es[i]]]]
JObj(members) == [t |-> "obj", n |-> 0, s |-> <<>>, kids |-> members]
M(key, value) == [k |-> key, v |-> value]

HasKey(node, key) == \E i \in 1..Len(node.kids) : node.kids[i].k = key

\* dict.get(key, default)
GetOr(node, key, default) ==
    IF HasKey(node, key)
    THEN node.kids[CHOOSE i \in 1..Len(node.kids) : node.kids[i].k = key].v
    ELSE default

\* dict.get(key)
Get(node, key) == GetOr(node, key, JNull)

\* Python truth value of a JSON value
Truthy(v) ==
    CASE v.t = "null" -> FALSE
      [] v.t = "num" -> v.n # 0
      [] v.t = "str" -> Len(v.s) > 0
      [] v.t = "arr" -> Len(v.kids) > 0
      [] v.t = "obj" -> Len(v.kids) > 0

\* a or b
Or(a, b) == IF Truthy(a) THEN a ELSE b

\* str(v) of a scalar
PyStr(v) ==
    CASE v.t = "str" -> v.s
      [] v.t = "num" -> IntStr(v.n)
      [] v.t = "null" -> <<"N", "o", "n", "e">>

RECURSIVE Strip(_)
\* str.strip() for blanks
Strip(s) ==
    IF Len(s) = 0 THEN s
    ELSE IF s[1] = " " THEN Strip(Tail(s))
    ELSE IF s[Len(s)] = " " THEN Strip(SubSeq(s, 1, Len(s) - 1))
    ELSE s

\* float(str): blanks stripped, an optional sign, decimal digits with at most
\* one point. (Exponents, "inf", "nan" and "_" are outside the alphabet of
\* the strings enumerated here.)
ParseFloat(s) ==
    LET t == Strip(s)
        neg == Len(t) > 0 /\ t[1] = "-"
        body == IF Len(t) > 0 /\ t[1] \in {"-", "+"} THEN Tail(t) ELSE t
        dot == IndexOf(body, ".")
        ip == IF dot = 0 THEN body ELSE SubSeq(body, 1, dot - 1)
        fp == IF dot = 0 THEN <<>> ELSE SubSeq(body, dot + 1, Len(body))
        mag == DigitsVal(ip) * Scale + (DigitsVal(fp) * Scale) \div Pow10(Len(fp))
    IN IF AllDigits(ip) /\ AllDigits(fp) /\ Len(ip) + Len(fp) >= 1
       THEN Some(IF neg THEN -mag ELSE mag)
       ELSE None

\* ------------------------------------------------------------ dates
\* A call argument that should be a str: [isStr, s]; isStr = FALSE is None.
StrArg(cs) == [isStr |-> TRUE, s |-> cs]
NoneArg == [isStr |-> FALSE, s |-> <<>>]

\* calendar._is_leap
IsLeap(y) == y % 4 = 0 /\ (y % 100 # 0 \/ y % 400 = 0)

\* datetime._days_in_month
DaysInMonth(y, m) ==
    IF m = 2 /\ IsLeap(y) THEN 29
    ELSE <<31, 28, 31, 30, 31, 30, 31, 31, 30, 31, 30, 31>>[m]

\* datetime._days_before_year
DaysBeforeYear(y) ==
    (y - 1) * 365 + (y - 1) \div 4 - (y - 1) \div 100 + (y - 1) \div 400

RECURSIVE DaysBeforeMonth(_, _)
\* datetime._days_before_month
DaysBeforeMonth(y, m) ==
    IF m = 1 THEN 0 ELSE DaysBeforeMonth(y, m - 1) + DaysInMonth(y, m - 1)

\* date.toordinal
ToOrdinal(d) == DaysBeforeYear(d.y) + DaysBeforeMonth(d.y, d.m) + d.d

\* %m of _strptime: 1[0-2]|0[1-9]|[1-9]
MatchMonth(s) ==
    \/ Len(s) = 2 /\ s[1] = "1" /\ s[2] \in {"0", "1", "2"}
    \/ Len(s) = 2 /\ s[1] = "0" /\ s[2] \in DigitChars \ {"0"}
    \/ Len(s) = 1 /\ s[1] \in DigitChars \ {"0"}

\* %d of _strptime: 3[01]|[12]\d|0[1-9]|[1-9]| [1-9]
MatchDay(s) ==
    \/ Len(s) = 2 /\ s[1] = "3" /\ s[2] \in {"0", "1"}
    \/ Len(s) = 2 /\ s[1] \in {"1", "2"} /\ s[2] \in DigitChars
    \/ Len(s) = 2 /\ s[1] = "0" /\ s[2] \in DigitChars \ {"0"}
    \/ Len(s) = 1 /\ s[1] \in DigitChars \ {"0"}
    \/ Len(s) = 2 /\ s[1] = " " /\ s[2] \in DigitChars \ {"0"}

\* datetime.strptime(a, "%Y-%m-%d").date(): [exc, y, m, d]. %Y is \d\d\d\d;
\* the whole string must be consumed; the date constructor rejects year 0 and
\* a day the month does not have.
Strptime(a) ==
    LET bad(e) == [exc |-> e, y |-> 0, m |-> 0, d |-> 0]
        s == a.s
        rest == SubSeq(s, 6, Len(s))
        dash == IndexOf(rest, "-")
        ms == SubSeq(rest, 1, dash - 1)
        ds == SubSeq(rest, dash + 1, Len(rest))
        yy == DigitsVal(SubSeq(s, 1, 4))
        mm == DigitsVal(ms)
        dd == DigitsVal(Strip(ds))
    IN IF ~a.isStr THEN bad("TypeError")
       ELSE IF Len(s) < 5 \/ ~AllDigits(SubSeq(s, 1, 4)) \/ s[5] # "-"
       THEN bad("ValueError")
       ELSE IF dash = 0 \/ ~MatchMonth(ms) \/ ~MatchDay(ds)
       THEN bad("ValueError")
       ELSE IF yy < 1 \/ dd > DaysInMonth(yy, mm)
       THEN bad("ValueError")
       ELSE [exc |-> "none", y |-> yy, m |-> mm, d |-> dd]

\* _nights' handler: except Exception
NightsCatches(e) == e \in {"TypeError", "ValueError"}

\* (d1 - d0).days, without the floor of 1
NightsFloorless(d0, d1) == ToOrdinal(d1) - ToOrdinal(d0)

\* max(1, (d1 - d0).days)
NightsFloor(d0, d1) ==
    IF ToOrdinal(d1) - ToOrdinal(d0) > 1 THEN ToOrdinal(d1) - ToOrdinal(d0) ELSE 1

\* _nights(checkin, checkout): [exc, val]; exc # "none" is an exception that
\* left the function.
Nights(checkin, checkout) ==
    LET d0 == Strptime(checkin)
        d1 == Strptime(checkout)
        e == IF d0.exc # "none" THEN d0.exc ELSE d1.exc
    IN IF e = "none" THEN [exc |-> "none", val |-> NightsFloor(d0, d1)]
       ELSE IF NightsCatches(e) THEN [exc |-> "none", val |-> 1]
       ELSE [exc |-> e, val |-> 0]

\* ------------------------------------------------------------ idle values
\* Each specification below exercises one entry point and leaves the state of
\* the others at these values.
HotelIdle ==
    /\ env = [key |-> "unset", zone |-> "unset"]
    /\ urlOrder = <<>>
    /\ args = [city |-> <<>>, checkin |-> <<>>, checkout |-> <<>>, adults |-> 0,
               limit |-> 0]
    /\ pc = "idle"
    /\ posts = 0
    /\ status = 0
    /\ failure = "none"
    /\ data = JNull
    /\ found = <<>>
    /\ rows = <<>>
    /\ result = <<>>
    /\ exc = "none"
    /\ stdout = "nothing"

NightsIdle ==
    /\ nArgs = [checkin |-> NoneArg, checkout |-> NoneArg]
    /\ nRet = [done |-> FALSE, exc |-> "none", val |-> 0]

NullSummary ==
    [place_id |-> JNull, name |-> JNull, rating |-> JNull, types |-> JNull,
     location |-> JNull, address |-> JNull]

PlaceIdle ==
    /\ place = JNull
    /\ pRet = [done |-> FALSE, exc |-> "none", summary |-> NullSummary]

\* ------------------------------------------------------------ _nights
YearTexts == {NatStr(y) : y \in FirstYear..(FirstYear + YearSpan)}
MonthTexts == {<<"0", "2">>, <<"2">>, <<"1", "2">>, <<"1", "3">>}
DayTexts == {<<"0", "1">>, <<"2", "8">>, <<"2", "9">>, <<"3", "0">>,
             <<"3", "1">>, <<"5">>}

DashedTexts ==
    {y \o <<"-">> \o m \o <<"-">> \o d :
        y \in YearTexts, m \in MonthTexts, d \in DayTexts}

OtherTexts ==
    { <<>>,
      <<"0", "0", "0", "0", "-", "0", "1", "-", "0", "1">>,
      <<"2", "0", "2", "5", "/", "1", "2", "/", "0", "5">>,
      <<"2", "0", "2", "5", "-", "1", "2">>,
      <<"2", "0", "2", "5", "-", "1", "2", "-", "0", "5", "1">>,
      <<"2", "5", "-", "1", "2", "-", "0", "5">>,
      <<"2", "0", "2", "5", "-", "1", "2", "-", " ", "5">>,
      <<"t", "o", "d", "a", "y">> }

DateArgs == {StrArg(s) : s \in DashedTexts \cup OtherTexts} \cup {NoneArg}

InitNights ==
    /\ HotelIdle
    /\ PlaceIdle
    /\ nArgs \in [checkin : DateArgs, checkout : DateArgs]
    /\ nRet = [done |-> FALSE, exc |-> "none", val |-> 0]

\* one call of _nights(checkin, checkout)
NightsCall ==
    /\ ~nRet.done
    /\ LET r == Nights(nArgs.checkin, nArgs.checkout)
       IN nRet' = [done |-> TRUE, exc |-> r.exc, val |-> r.val]
    /\ UNCHANGED <<hotelVars, nArgs, place, pRet>>

NextNights == NightsCall

SpecNights == InitNights /\ [][NextNights]_vars

\* Days since 1970-01-01 of a civil date, by the era/day-of-era count.
DaysFromCivil(d) ==
    LET y == IF d.m <= 2 THEN d.y - 1 ELSE d.y
        era == y \div 400
        yoe == y - era * 400
        mp == IF d.m > 2 THEN d.m - 3 ELSE d.m + 9
        doy == (153 * mp + 2) \div 5 + d.d - 1
        doe == yoe * 365 + yoe \div 4 - yoe \div 100 + doy
    IN era * 146097 + doe - 719468

\* C6: _nights never raises and returns an integer >= 1: the whole-day
\* difference for two parseable dates with checkout after checkin, and 1 for
\* identical dates, checkout before checkin, or an unparseable date.
C6_NightsAtLeastOne ==
    nRet.done =>
        LET d0 == Strptime(nArgs.checkin)
            d1 == Strptime(nArgs.checkout)
            ok == d0.exc = "none" /\ d1.exc = "none"
            diff == DaysFromCivil(d1) - DaysFromCivil(d0)
        IN /\ nRet.exc = "none"
           /\ nRet.val >= 1
           /\ (ok /\ diff > 0) => nRet.val = diff
           /\ ~(ok /\ diff > 0) => nRet.val = 1

C6_Witness ==
    /\ nRet.done
    /\ Strptime(nArgs.checkin).exc = "none"
    /\ Strptime(nArgs.checkout).exc = "none"
    /\ Strptime(nArgs.checkin).y < Strptime(nArgs.checkout).y
    /\ nRet.val > 300

\* ------------------------------------------------------------ extraction
\* Optional[str]
NoStr == [some |-> FALSE, val |-> <<>>]
SomeStr(cs) == [some |-> TRUE, val |-> cs]

URL_KEYS == {"url", "link", "g_url", "maps_url", "hotel_url", "booking_url",
             "result_url", "place_link"}

\* URL_KEYS is a set of str: its iteration order is fixed within a process
\* and differs between processes (string hashing is salted). Two orders are
\* enumerated, one with "url" before "link" and one with "link" before "url".
UrlKeyOrders ==
    { <<"url", "link", "g_url", "maps_url", "hotel_url", "booking_url",
        "result_url", "place_link">>,
      <<"place_link", "result_url", "booking_url", "hotel_url", "maps_url",
        "g_url", "link", "url">> }

\* _to_float: float(v), None when it raises
ToFloat(v) ==
    CASE v.t = "num" -> Some(v.n * Scale)
      [] v.t = "str" -> ParseFloat(v.s)
      [] OTHER -> None

RECURSIVE TakeRun(_)
\* the longest prefix of digits and commas
TakeRun(s) ==
    IF Len(s) > 0 /\ s[1] \in DigitChars \cup {","}
    THEN <<s[1]>> \o TakeRun(Tail(s))
    ELSE <<>>

RECURSIVE DropCommas(_)
\* .replace(",", "")
DropCommas(s) ==
    IF Len(s) = 0 THEN <<>>
    ELSE IF s[1] = "," THEN DropCommas(Tail(s))
    ELSE <<s[1]>> \o DropCommas(Tail(s))

\* _to_price_usd: re.search(r"(\d[\d,]*)", s), commas dropped, float()
ToPriceUsd(s) ==
    IF ~s.some \/ Len(s.val) = 0 THEN None
    ELSE IF \E i \in 1..Len(s.val) : s.val[i] \in DigitChars
    THEN LET i == CHOOSE i \in 1..Len(s.val) :
                     /\ s.val[i] \in DigitChars
                     /\ \A j \in 1..(i - 1) : s.val[j] \notin DigitChars
             run == TakeRun(SubSeq(s.val, i, Len(s.val)))
         IN Some(DigitsVal(DropCommas(run)) * Scale)
    ELSE None

RECURSIVE PickUrlFrom(_, _, _)
PickUrlFrom(d, order, i) ==
    IF i > Len(order) THEN NoStr
    ELSE LET v == Get(d, order[i])
         IN IF v.t = "str" /\ StartsWith(v.s, <<"h", "t", "t", "p">>)
            THEN SomeStr(v.s)
            ELSE PickUrlFrom(d, order, i + 1)

\* _pick_url, with URL_KEYS iterated in `order`
PickUrl(d, order) == PickUrlFrom(d, order, 1)

\* node.get("name") or node.get("title")
PickName(node) == Or(Get(node, "name"), Get(node, "title"))

\* node.get("overall_rating") or node.get("rating") or node.get("stars")
\*   or node.get("star_rating")
PickRating(node) ==
    Or(Or(Or(Get(node, "overall_rating"), Get(node, "rating")),
          Get(node, "stars")), Get(node, "star_rating"))

\* node.get("price_text") or node.get("price") or node.get("rate")
\*   or node.get("rate_per_night")
PickPriceText(node) ==
    Or(Or(Or(Get(node, "price_text"), Get(node, "price")),
          Get(node, "rate")), Get(node, "rate_per_night"))

\* node.get("address") or node.get("neighborhood") or node.get("vicinity")
\*   or node.get("location")
PickAddress(node) ==
    Or(Or(Or(Get(node, "address"), Get(node, "neighborhood")),
          Get(node, "vicinity")), Get(node, "location"))

\* if name and (rating or price_text)
Qualifies(node) ==
    Truthy(PickName(node))
        /\ (Truthy(PickRating(node)) \/ Truthy(PickPriceText(node)))

\* the dict walk appends for a qualifying node
Candidate(node, order) ==
    [name |-> PyStr(PickName(node)),
     rating |-> ToFloat(PickRating(node)),
     price_text |-> IF PickPriceText(node).t # "null"
                    THEN SomeStr(PyStr(PickPriceText(node)))
                    ELSE NoStr,
     address |-> PickAddress(node),
     url |-> PickUrl(node, order)]

RECURSIVE Walk(_, _)
RECURSIVE WalkEach(_, _, _)
\* walk(node): what it appends to found, in order
Walk(node, order) ==
    CASE node.t = "obj" ->
            (IF Qualifies(node) THEN <<Candidate(node, order)>> ELSE <<>>)
                \o WalkEach(node.kids, order, 1)
      [] node.t = "arr" -> WalkEach(node.kids, order, 1)
      [] OTHER -> <<>>

\* for v in node.values(): walk(v)  /  for v in node: walk(v)
WalkEach(kids, order, i) ==
    IF i > Len(kids) THEN <<>>
    ELSE Walk(kids[i].v, order) \o WalkEach(kids, order, i + 1)

\* the dict the dedup loop appends for candidate h
Row(h) ==
    [name |-> h.name, rating |-> h.rating, area |-> h.address,
     price_usd |-> ToPriceUsd(h.price_text), url |-> h.url]

\* a membership test that never finds the name
SeenNever(name, seen) == FALSE

\* if h["name"] in seen: continue
Seen(name, seen) == name \in seen

RECURSIVE DedupFrom(_, _, _, _, _)
\* the loop over found, from its i-th candidate
DedupFrom(cands, i, out, seen, limit) ==
    IF i > Len(cands) THEN out
    ELSE IF Seen(cands[i].name, seen)
    THEN DedupFrom(cands, i + 1, out, seen, limit)
    ELSE LET out2 == Append(out, Row(cands[i]))
         IN IF Len(out2) >= limit THEN out2
            ELSE DedupFrom(cands, i + 1, out2, seen \cup {cands[i].name}, limit)

\* _extract_hotels_from_serp_json(data, limit)
ExtractHotels(tree, order, limit) ==
    DedupFrom(Walk(tree, order), 1, <<>>, {}, limit)

\* ------------------------------------------------------------ search_hotels_google
LowerLetters == <<"a", "b", "c", "d", "e", "f", "g", "h", "i", "j", "k", "l", "m", "n", "o", "p", "q", "r", "s", "t", "u", "v", "w", "x", "y", "z">>
UpperLetters == <<"A", "B", "C", "D", "E", "F", "G", "H", "I", "J", "K", "L", "M", "N", "O", "P", "Q", "R", "S", "T", "U", "V", "W", "X", "Y", "Z">>

\* str.upper(), one character
UpperChar(c) ==
    IF IndexOf(LowerLetters, c) # 0 THEN UpperLetters[IndexOf(LowerLetters, c)]
    ELSE c

Upper(s) == [i \in 1..Len(s) |-> UpperChar(s[i])]

CITY_MAP ==
    << [code |-> <<"N", "Y", "C">>, city |-> <<"N", "e", "w", " ", "Y", "o", "r", "k">>],
       [code |-> <<"J", "F", "K">>, city |-> <<"N", "e", "w", " ", "Y", "o", "r", "k">>],
       [code |-> <<"L", "G", "A">>, city |-> <<"N", "e", "w", " ", "Y", "o", "r", "k">>],
       [code |-> <<"E", "W", "R">>, city |-> <<"N", "e", "w", " ", "Y", "o", "r", "k">>],
       [code |-> <<"M", "I", "A">>, city |-> <<"M", "i", "a", "m", "i">>],
       [code |-> <<"F", "L", "L">>, city |-> <<"F", "o", "r", "t", " ", "L", "a", "u", "d", "e", "r", "d", "a", "l", "e">>],
       [code |-> <<"M", "C", "O">>, city |-> <<"O", "r", "l", "a", "n", "d", "o">>],
       [code |-> <<"L", "A", "X">>, city |-> <<"L", "o", "s", " ", "A", "n", "g", "e", "l", "e", "s">>],
       [code |-> <<"S", "F", "O">>, city |-> <<"S", "a", "n", " ", "F", "r", "a", "n", "c", "i", "s", "c", "o">>],
       [code |-> <<"S", "E", "A">>, city |-> <<"S", "e", "a", "t", "t", "l", "e">>],
       [code |-> <<"B", "O", "S">>, city |-> <<"B", "o", "s", "t", "o", "n">>],
       [code |-> <<"D", "F", "W">>, city |-> <<"D", "a", "l", "l", "a", "s">>],
       [code |-> <<"O", "R", "D">>, city |-> <<"C", "h", "i", "c", "a", "g", "o">>],
       [code |-> <<"I", "A", "D">>, city |-> <<"W", "a", "s", "h", "i", "n", "g", "t", "o", "n">>],
       [code |-> <<"D", "C", "A">>, city |-> <<"W", "a", "s", "h", "i", "n", "g", "t", "o", "n">>],
       [code |-> <<"L", "A", "S">>, city |-> <<"L", "a", "s", " ", "V", "e", "g", "a", "s">>],
       [code |-> <<"P", "H", "X">>, city |-> <<"P", "h", "o", "e", "n", "i", "x">>] >>

\* CITY_MAP.get(city_or_iata.upper(), city_or_iata)
ResolveCity(city_or_iata) ==
    IF \E i \in 1..Len(CITY_MAP) : CITY_MAP[i].code = Upper(city_or_iata)
    THEN CITY_MAP[CHOOSE i \in 1..Len(CITY_MAP) :
                      CITY_MAP[i].code = Upper(city_or_iata)].city
    ELSE city_or_iata

\* urllib.parse.quote_plus, one character: letters, digits and "_.-~" are
\* kept, a blank becomes "+", anything else its %XX escape.
QuoteChar(c) ==
    CASE c = " " -> <<"+">>
      [] c \in DigitChars \cup {"_", ".", "-", "~"} -> <<c>>
      [] IndexOf(LowerLetters, c) # 0 \/ IndexOf(UpperLetters, c) # 0 -> <<c>>
      [] c = "$" -> <<"%", "2", "4">>
      [] c = "&" -> <<"%", "2", "6">>
      [] c = "," -> <<"%", "2", "C">>
      [] c = "/" -> <<"%", "2", "F">>
      [] c = ":" -> <<"%", "3", "A">>

RECURSIVE QuotePlus(_)
QuotePlus(s) ==
    IF Len(s) = 0 THEN <<>> ELSE QuoteChar(s[1]) \o QuotePlus(Tail(s))

\* f"https://www.google.com/maps/search/?api=1&query={quote_plus(f'{name} {city}')}"
FallbackUrl(name, city) ==
    <<"h", "t", "t", "p", "s", ":", "/", "/", "w", "w", "w", ".", "g", "o", "o", "g", "l", "e", ".", "c", "o", "m", "/", "m", "a", "p", "s", "/", "s", "e", "a", "r", "c", "h", "/", "?", "a", "p", "i", "=", "1", "&", "q", "u", "e", "r", "y", "=">>
        \o QuotePlus(name \o <<" ">> \o city)

\* round(x, 2) of a float: to the nearest multiple of 10^-Decimals, ties to
\* the even one
Round2(x) ==
    LET unit == Scale \div Pow10(Decimals)
        q == x \div unit
        r == x % unit
    IN IF 2 * r < unit THEN q * unit
       ELSE IF 2 * r > unit THEN (q + 1) * unit
       ELSE IF q % 2 = 0 THEN q * unit ELSE (q + 1) * unit

HotelName == <<"H", "o", "t", "e", "l">>
CentralArea == <<"C", "e", "n", "t", "r", "a", "l">>
\* 3.5
DefaultStars == (35 * Scale) \div 10

\* round(total, 2) if total else None
TotalUsd(total) ==
    IF total.some /\ total.val # 0 THEN Some(Round2(total.val)) ELSE None

\* the dict the loop over rows appends for row r
HotelRecord(r, nights, city) ==
    LET name == IF Len(r.name) > 0 THEN r.name ELSE HotelName
        area == IF Truthy(r.area) THEN r.area ELSE JStr(CentralArea)
        stars == IF r.rating.some /\ r.rating.val # 0 THEN r.rating.val
                 ELSE DefaultStars
        p_night == r.price_usd
        total == IF p_night.some THEN Some(p_night.val * nights) ELSE None
        bd_url == r.url
        url_final == IF bd_url.some /\ Len(bd_url.val) > 0 THEN bd_url.val
                     ELSE FallbackUrl(name, city)
    IN [name |-> name, area |-> area, stars |-> stars,
        price_per_night_usd |-> p_night, total_usd |-> TotalUsd(total),
        url |-> url_final]

\* the loop over rows
HotelRecords(rs, nights, city) ==
    [i \in 1..Len(rs) |-> HotelRecord(rs[i], nights, city)]

\* ------------------------------------------------------------ gateway responses
\* Members of the hotel-like objects the gateway's JSON is built from: one
\* choice for the name keys, one for the rating keys, one for the price keys.
NameParts ==
    { <<>>,
      <<M("name", JStr(<<"A">>))>>,
      <<M("name", JStr(<<"B">>))>>,
      <<M("title", JStr(<<"A">>))>>,
      <<M("name", JStr(<<>>)), M("title", JStr(<<"B">>))>>,
      <<M("name", JNum(1))>> }

RatingParts ==
    { <<>>,
      <<M("rating", JNum(4))>>,
      <<M("rating", JNum(0))>>,
      <<M("overall_rating", JNum(3)), M("rating", JNum(5))>>,
      <<M("overall_rating", JNum(0)), M("star_rating", JStr(<<"4", ".", "5">>))>>,
      <<M("stars", JStr(<<"x">>))>>,
      <<M("rating", JStr(<<"0">>))>> }

PriceParts ==
    { <<>>,
      <<M("price_text", JStr(<<"$", "1", "0", "0">>))>>,
      <<M("price", JStr(<<"$", "0">>))>>,
      <<M("price_text", JStr(<<"N", "/", "A">>)), M("rate", JStr(<<"$", "5">>))>>,
      <<M("rate_per_night", JNum(0))>>,
      <<M("price_text", JStr(<<>>)), M("price", JStr(<<"1", ",", "2", "0", "0", " ", "U", "S", "D">>))>> }

SingleItems ==
    {JObj(n \o r \o p) : n \in NameParts, r \in RatingParts, p \in PriceParts}

\* Objects for arrays and nesting: two share the name "A" and differ in
\* every other field; the first carries two URL keys.
ItemA1 ==
    JObj(<<M("name", JStr(<<"A">>)), M("rating", JNum(4)),
           M("price_text", JStr(<<"$", "1", "0", "0">>)), M("address", JStr(<<"X">>)),
           M("url", JStr(<<"h", "t", "t", "p", ":", "a">>)), M("link", JStr(<<"h", "t", "t", "p", ":", "b">>))>>)
ItemB ==
    JObj(<<M("name", JStr(<<"B">>)), M("rating", JStr(<<"0">>)),
           M("price", JStr(<<"$", "0">>)), M("vicinity", JStr(<<>>)),
           M("link", JStr(<<"/", "r", "e", "l">>))>>)
ItemA2 ==
    JObj(<<M("name", JStr(<<"A">>)), M("overall_rating", JNum(0)),
           M("rating", JNum(5)), M("price_text", JStr(<<"N", "/", "A">>)),
           M("rate", JStr(<<"1", ",", "2", "0", "0">>)), M("neighborhood", JStr(<<"Y">>)),
           M("maps_url", JStr(<<"h", "t", "t", "p", ":", "c">>))>>)
ItemT ==
    JObj(<<M("title", JStr(<<"T">>)), M("stars", JStr(<<"x">>)),
           M("price", JStr(<<"$", "5">>))>>)
ItemNameOnly == JObj(<<M("name", JStr(<<"C">>))>>)
ItemZeroRating == JObj(<<M("name", JStr(<<"C">>)), M("rating", JNum(0))>>)

SmallPool == {ItemA1, ItemB, ItemA2, ItemT}
MidPool == SmallPool \cup {ItemNameOnly, ItemZeroRating}

RECURSIVE SeqsUpTo(_, _)
\* the sequences over S of length 1..n
SeqsUpTo(S, n) ==
    IF n = 0 THEN {}
    ELSE LET shorter == SeqsUpTo(S, n - 1)
         IN {<<x>> : x \in S} \cup shorter
                \cup {Append(s, x) : s \in shorter, x \in S}

\* {"results": [...]}
Wrap(items) == JObj(<<M("results", JArr(items))>>)

\* parent with one more member, "rooms": [child]
Nest(parent, child) ==
    JObj(parent.kids \o <<M("rooms", JArr(<<child>>))>>)

Trees ==
    {Wrap(<<x>>) : x \in SingleItems}
        \cup {Wrap(s) : s \in SeqsUpTo(SmallPool, MaxItems)}
        \cup {JArr(<<Nest(x, y)>>) : x \in MidPool, y \in MidPool}
        \cup {JNull, JStr(<<"o", "k">>), JArr(<<>>)}

\* ------------------------------------------------------------ the hotel CLI run
EnvValues == {"unset", "empty", "set"}

Cities == {<<"m", "i", "a">>, <<"R", "o", "m", "e">>}

DatePairs ==
    { <<<<"2", "0", "2", "5", "-", "1", "2", "-", "0", "5">>, <<"2", "0", "2", "5", "-", "1", "2", "-", "0", "8">>>>,
      <<<<"2", "0", "2", "5", "-", "1", "2", "-", "0", "5">>, <<"s", "o", "o", "n">>>> }

InitHotel ==
    /\ NightsIdle
    /\ PlaceIdle
    /\ env \in [key : EnvValues, zone : EnvValues]
    /\ urlOrder \in UrlKeyOrders
    /\ \E c \in Cities, d \in DatePairs, l \in 0..MaxLimit :
          args = [city |-> c, checkin |-> d[1], checkout |-> d[2],
                  adults |-> 2, limit |-> l]
    /\ pc = "serp_direct"
    /\ posts = 0
    /\ status = 0
    /\ failure = "none"
    /\ data = JNull
    /\ found = <<>>
    /\ rows = <<>>
    /\ result = <<>>
    /\ exc = "none"
    /\ stdout = "nothing"

\* BrightDataError is a RuntimeError; the httpx errors and JSONDecodeError
\* derive from Exception too.
ExceptionClasses ==
    {"BrightDataError", "ConnectError", "ReadTimeout", "HTTPStatusError",
     "JSONDecodeError", "TypeError", "ValueError"}

\* a handler narrowed to the configuration error
SearchCatchesConfigOnly(e) == e = "BrightDataError"

\* search_hotels_google: except Exception as e
SearchCatches(e) == e \in ExceptionClasses

\* __main__: except BrightDataError as e
CliCatches(e) == e = "BrightDataError"

\* not BRIGHT_API_KEY or not BRIGHT_SERP_ZONE
CredsMissing == env.key # "set" \/ env.zone # "set"

\* An exception e raised inside the try of search_hotels_google: the handler
\* logs it and returns [], or e leaves the function.
Raise(e) ==
    /\ failure' = e
    /\ IF SearchCatches(e)
       THEN pc' = "returned" /\ result' = <<>> /\ exc' = exc
       ELSE pc' = "raised" /\ result' = result /\ exc' = e

\* serp_direct: _require_creds()
RequireCreds ==
    /\ pc = "serp_direct"
    /\ IF CredsMissing
       THEN Raise("BrightDataError")
       ELSE pc' = "post" /\ UNCHANGED <<failure, result, exc>>
    /\ UNCHANGED <<env, urlOrder, args, posts, status, data, found, rows, stdout,
                   nArgs, nRet, place, pRet>>

\* serp_direct: httpx.post(...), which fails in transport or answers with
\* some status
HttpPost ==
    /\ pc = "post"
    /\ posts' = posts + 1
    /\ \/ \E e \in {"ConnectError", "ReadTimeout"} :
             Raise(e) /\ status' = status
       \/ \E code \in {200, 404, 500} :
             /\ status' = code
             /\ pc' = "raise_for_status"
             /\ UNCHANGED <<failure, result, exc>>
    /\ UNCHANGED <<env, urlOrder, args, data, found, rows, stdout,
                   nArgs, nRet, place, pRet>>

\* serp_direct: resp.raise_for_status()
RaiseForStatus ==
    /\ pc = "raise_for_status"
    /\ IF status \in 200..299
       THEN pc' = "json" /\ UNCHANGED <<failure, result, exc>>
       ELSE Raise("HTTPStatusError")
    /\ UNCHANGED <<env, urlOrder, args, posts, status, data, found, rows, stdout,
                   nArgs, nRet, place, pRet>>

\* data = res.json(): the body is not JSON, or it is some JSON tree
ResJson ==
    /\ pc = "json"
    /\ \/ Raise("JSONDecodeError") /\ data' = data
       \/ \E tree \in Trees :
             /\ data' = tree
             /\ pc' = "extract"
             /\ UNCHANGED <<failure, result, exc>>
    /\ UNCHANGED <<env, urlOrder, args, posts, status, found, rows, stdout,
                   nArgs, nRet, place, pRet>>

\* rows = _extract_hotels_from_serp_json(data, limit=limit);
\* nights = _nights(checkin, checkout); the loop over rows; return out
Assemble ==
    /\ pc = "extract"
    /\ LET n == Nights(StrArg(args.checkin), StrArg(args.checkout))
           rs == ExtractHotels(data, urlOrder, args.limit)
       IN /\ found' = Walk(data, urlOrder)
          /\ rows' = rs
          /\ IF n.exc = "none"
             THEN /\ result' = HotelRecords(rs, n.val, ResolveCity(args.city))
                  /\ pc' = "returned"
                  /\ exc' = exc
             ELSE /\ result' = result
                  /\ pc' = "raised"
                  /\ exc' = n.exc
    /\ UNCHANGED <<env, urlOrder, args, posts, status, failure, data, stdout,
                   nArgs, nRet, place, pRet>>

\* __main__: print the success object, or the error object for a
\* BrightDataError; any other exception ends the process with a traceback
CliPrint ==
    /\ pc \in {"returned", "raised"}
    /\ stdout' = IF pc = "returned" THEN "success"
                 ELSE IF CliCatches(exc) THEN "error" ELSE "traceback"
    /\ pc' = "done"
    /\ UNCHANGED <<env, urlOrder, args, posts, status, failure, data, found, rows,
                   result, exc, nArgs, nRet, place, pRet>>

Next ==
    \/ RequireCreds
    \/ HttpPost
    \/ RaiseForStatus
    \/ ResJson
    \/ Assemble
    \/ CliPrint

Spec == InitHotel /\ [][Next]_vars

\* ------------------------------------------------------------ properties: the hotel path
\* search_hotels_google returned what it assembled from the gateway's JSON.
Assembled == pc \in {"returned", "done"} /\ failure = "none"

GatewayFailures ==
    {"ConnectError", "ReadTimeout", "HTTPStatusError", "JSONDecodeError"}

\* C1: with the API key or the zone missing, the CLI run ends by printing
\* the error object, never the success object, and issues no gateway POST.
C1_MissingCredsPrintError ==
    (pc = "done" /\ CredsMissing) => (stdout = "error" /\ posts = 0)

\* C7: a failed gateway call (network error, timeout, non-2xx status, a body
\* that is not JSON) ends search_hotels_google with an empty list and no
\* exception; at most one POST is issued per call.
C7_GatewayFailureGivesEmpty ==
    /\ posts <= 1
    /\ (failure \in GatewayFailures) =>
          /\ pc \in {"returned", "done"}
          /\ result = <<>>
          /\ exc = "none"
          /\ stdout \in {"nothing", "success"}

C7_Witness ==
    /\ pc = "returned"
    /\ failure = "HTTPStatusError"
    /\ status = 500
    /\ posts = 1
    /\ result = <<>>

\* The indices of the candidates that are the first with their name.
FirstIdx(cands) ==
    {i \in 1..Len(cands) : \A j \in 1..(i - 1) : cands[j].name # cands[i].name}

\* The index of the k-th candidate that is the first with its name.
KthFirst(cands, k) ==
    CHOOSE i \in FirstIdx(cands) :
        Cardinality({j \in FirstIdx(cands) : j <= i}) = k

\* C2: the extractor's output, and so search_hotels_google's, is never
\* longer than the requested limit (0 and 1 included), and holds exactly the
\* first `limit` distinct-name candidates when that many exist.
C2_AtMostLimit ==
    Assembled =>
        /\ Len(rows) <= args.limit
        /\ Len(result) <= args.limit
        /\ Cardinality(FirstIdx(found)) >= args.limit =>
              /\ Len(rows) = args.limit
              /\ \A k \in 1..Len(rows) :
                    rows[k].name = found[KthFirst(found, k)].name

\* C3: the extractor's output has pairwise distinct names, each record is
\* built from the first candidate of that name in traversal order (its
\* rating, price, area and url), and the records are in the order of those
\* first occurrences.
C3_FirstOccurrenceWins ==
    Assembled =>
        /\ \A i, j \in 1..Len(rows) : i # j => rows[i].name # rows[j].name
        /\ Len(rows) <= Cardinality(FirstIdx(found))
        /\ \A k \in 1..Len(rows) :
              LET h == found[KthFirst(found, k)]
              IN /\ rows[k].name = h.name
                 /\ rows[k].rating = h.rating
                 /\ rows[k].area = h.address
                 /\ rows[k].price_usd = ToPriceUsd(h.price_text)
                 /\ rows[k].url = h.url

C3_Witness ==
    /\ Assembled
    /\ Len(found) = 3
    /\ found[1].name = found[3].name
    /\ found[1].rating # found[3].rating
    /\ found[1].url # found[3].url
    /\ Len(rows) = 2
    /\ rows[1].rating = found[1].rating
    /\ rows[2].name = found[2].name

RECURSIVE ObjNodes(_)
RECURSIVE ObjNodesEach(_, _)
\* The object nodes of a tree, parents before their descendants.
ObjNodes(node) ==
    CASE node.t = "obj" -> <<node>> \o ObjNodesEach(node.kids, 1)
      [] node.t = "arr" -> ObjNodesEach(node.kids, 1)
      [] OTHER -> <<>>

ObjNodesEach(kids, i) ==
    IF i > Len(kids) THEN <<>>
    ELSE ObjNodes(kids[i].v) \o ObjNodesEach(kids, i + 1)

\* A key is present on a node: the node has it, with a value that is not null.
Present(node, key) == HasKey(node, key) /\ Get(node, key).t # "null"

RECURSIVE FirstPresentFrom(_, _, _)
\* The value of the first of `keys` present on the node, null when none is.
FirstPresentFrom(node, keys, i) ==
    IF i > Len(keys) THEN JNull
    ELSE IF Present(node, keys[i]) THEN Get(node, keys[i])
    ELSE FirstPresentFrom(node, keys, i + 1)

NameKeys == <<"name", "title">>
RatingKeys == <<"overall_rating", "rating", "stars", "star_rating">>
PriceKeys == <<"price_text", "price", "rate", "rate_per_night">>

AnyPresent(node, keys) == \E i \in 1..Len(keys) : Present(node, keys[i])

\* The qualification rule as stated: a name present, and a rating or a price
\* text present, whatever the present value is.
QualifiesAsStated(node) ==
    AnyPresent(node, NameKeys)
        /\ (AnyPresent(node, RatingKeys) \/ AnyPresent(node, PriceKeys))

\* C4: walk's candidate list holds exactly one candidate for each object
\* node with a name present and a rating or price text present (whatever the
\* present value is, a rating of 0 included) and none for any other node,
\* parents before their descendants.
C4_OneCandidatePerQualifyingNode ==
    Assembled =>
        LET nodes == SelectSeq(ObjNodes(data), QualifiesAsStated)
        IN /\ Len(found) = Len(nodes)
           /\ \A i \in 1..Len(found) :
                 found[i].name = PyStr(FirstPresentFrom(nodes[i], NameKeys, 1))

\* C10: a candidate's rating comes from the first key present among
\* overall_rating, rating, stars, star_rating and its price text from the
\* first present among price_text, price, rate, rate_per_night, even when a
\* later alias carries a value too; an unconvertible rating gives null.
C10_FirstPresentAliasWins ==
    Assembled =>
        LET nodes == SelectSeq(ObjNodes(data), Qualifies)
        IN \A i \in 1..Len(nodes) :
              /\ i <= Len(found)
              /\ found[i].rating = ToFloat(FirstPresentFrom(nodes[i], RatingKeys, 1))
              /\ found[i].price_text =
                    (IF AnyPresent(nodes[i], PriceKeys)
                     THEN SomeStr(PyStr(FirstPresentFrom(nodes[i], PriceKeys, 1)))
                     ELSE NoStr)

\* C5: in every returned record total_usd is null exactly when
\* price_per_night_usd is null, and for a numeric price per night (0
\* included) it is that price times the night count, rounded to 2 decimals.
C5_TotalIffPrice ==
    Assembled =>
        \A i \in 1..Len(result) :
            LET r == result[i]
                n == Nights(StrArg(args.checkin), StrArg(args.checkout)).val
            IN /\ r.total_usd.some <=> r.price_per_night_usd.some
               /\ r.price_per_night_usd.some =>
                     r.total_usd = Some(Round2(r.price_per_night_usd.val * n))

\* C9: every returned record has name, area, stars and url set: url is the
\* candidate's URL when it has a non-empty one and the fallback map-search
\* link of the record name and the resolved city otherwise; name, area and
\* stars are "Hotel", "Central" and 3.5 exactly when the candidate's name,
\* address or rating is absent or unparseable.
C9_DefaultsOnlyWhenAbsent ==
    Assembled =>
        /\ Len(result) = Len(rows)
        /\ \A i \in 1..Len(result) :
              LET r == result[i]
                  c == rows[i]
              IN /\ Len(r.name) > 0 /\ r.area.t # "null" /\ Len(r.url) > 0
                 /\ r.url = (IF c.url.some /\ Len(c.url.val) > 0 THEN c.url.val
                             ELSE FallbackUrl(r.name, ResolveCity(args.city)))
                 /\ r.name = (IF Len(c.name) > 0 THEN c.name ELSE HotelName)
                 /\ r.area = (IF c.area.t # "null" THEN c.area
                              ELSE JStr(CentralArea))
                 /\ r.stars = (IF c.rating.some THEN c.rating.val
                               ELSE DefaultStars)

\* ------------------------------------------------------------ normalize_place_summary
\* normalize_place_summary(place): [exc, summary]. place.get('geometry', {})
\* is {} only when the key is absent; .get on a value that is no dict raises
\* AttributeError, and the function has no handler.
NormalizePlaceSummary(p) ==
    LET geometry == GetOr(p, "geometry", JObj(<<>>))
    IN IF geometry.t # "obj"
       THEN [exc |-> "AttributeError", summary |-> NullSummary]
       ELSE [exc |-> "none",
             summary |->
                [place_id |-> Get(p, "place_id"),
                 name |-> Get(p, "name"),
                 rating |-> Get(p, "rating"),
                 types |-> Get(p, "types"),
                 location |-> Get(geometry, "location"),
                 address |-> Or(Get(p, "formatted_address"), Get(p, "vicinity"))]]

\* A key of a raw place: absent, null, or set to one of `values`.
FieldChoices(key, values) ==
    {<<>>, <<M(key, JNull)>>} \cup {<<M(key, v)>> : v \in values}

LatLng == JObj(<<M("lat", JNum(47)), M("lng", JNum(-122))>>)

Places ==
    {JObj(a \o b \o c \o d \o e \o f \o g) :
        a \in FieldChoices("place_id", {JStr(<<"p", "1">>)}),
        b \in FieldChoices("name", {JStr(<<"C", "a", "f", "e">>)}),
        c \in FieldChoices("rating", {JNum(4)}),
        d \in FieldChoices("types", {JArr(<<JStr(<<"c", "a", "f", "e">>)>>)}),
        e \in FieldChoices("geometry",
                           {JObj(<<>>), JObj(<<M("location", LatLng)>>)}),
        f \in FieldChoices("formatted_address", {JStr(<<"1", " ", "M", "a", "i", "n", " ", "S", "t">>), JStr(<<>>)}),
        g \in FieldChoices("vicinity", {JStr(<<"D", "o", "w", "n", "t", "o", "w", "n">>)})}

InitPlaces ==
    /\ HotelIdle
    /\ NightsIdle
    /\ place \in Places
    /\ pRet = [done |-> FALSE, exc |-> "none", summary |-> NullSummary]

\* one call of normalize_place_summary(place)
NormalizeCall ==
    /\ ~pRet.done
    /\ LET r == NormalizePlaceSummary(place)
       IN pRet' = [done |-> TRUE, exc |-> r.exc, summary |-> r.summary]
    /\ UNCHANGED <<hotelVars, nArgs, nRet, place>>

NextPlaces == NormalizeCall

SpecPlaces == InitPlaces /\ [][NextPlaces]_vars

\* C8: normalize_place_summary raises for no raw place whose place_id, name,
\* rating, types, geometry, formatted_address and vicinity are each absent,
\* null or set, and every summary field whose source is absent or null is
\* null (location when geometry is absent or null).
C8_SummaryNeverRaises ==
    pRet.done =>
        /\ pRet.exc = "none"
        /\ ~Present(place, "place_id") => pRet.summary.place_id = JNull
        /\ ~Present(place, "name") => pRet.summary.name = JNull
        /\ ~Present(place, "rating") => pRet.summary.rating = JNull
        /\ ~Present(place, "types") => pRet.summary.types = JNull
        /\ ~Present(place, "geometry") => pRet.summary.location = JNull
        /\ (~Present(place, "formatted_address") /\ ~Present(place, "vicinity"))
              => pRet.summary.address = JNull

============================================================================
